---- MODULE Spec2Model ----
(***************************************************************************)
(* Scrape orchestration, job storage and webhook delivery of the scraper   *)
(* service (scraper_service/app).                                          *)
(*                                                                         *)
(*  - run_scrape_task / _bounded / _scrape_site_and_store run as           *)
(*    coroutines of one asyncio event loop: a step of the model is the     *)
(*    code between two awaits.                                             *)
(*  - the adapter (scrape_jobs) runs in a worker thread started by         *)
(*    asyncio.to_thread; asyncio.wait_for abandons the wait on timeout,    *)
(*    the thread itself cannot be stopped.                                 *)
(*  - every database statement either commits or raises.                   *)
(***************************************************************************)
EXTENDS Integers, Sequences, FiniteSets, TLC

\* ------------------------------------------------------------------ bounds

\* Longest DataFrame an adapter call hands back.
MaxRecords == 2

\* Largest settings.WEBHOOK_MAX_RETRIES of the deployments.
MaxAttempts == 3
\* Sender threads that trigger_scrape_completed_webhook starts.
MaxSenders == 2

\* Largest settings.WEBHOOK_MAX_RETRIES of the deployments whose delays are looked at.
MaxBackoffAttempts == 9
\* Largest delay, in seconds, that counts as capped.
BackoffCap == 60

\* Tasks the intake route may create.
TaskIds == {"t1", "t2"}
FirstTask == "t1"

\* ----------------------------------------------------------- configuration

\* The Settings class (config.py:16-25) has no attribute SITES_CONCURRENCY (read at
\* scraper_runner.py:226 and 231), SLOW_SCRAPE_THRESHOLD_SECONDS (228, 184) or
\* DB_INSERT_CHUNK_SIZE (166, with a default). The values they have where something
\* outside config.py sets them on the settings object:
Concurrencies == {1, 2}
\* One row per chunk; unset, the default puts every list of the model in one chunk.
ChunkSizes == {1}
\* getattr(settings, "DB_INSERT_CHUNK_SIZE", 500) or 500 (scraper_runner.py:166)
DefaultChunkSize == 500

\* ------------------------------------------------------------------ values

\* Python None / SQL NULL, as an optional value: <<>> is None, <<x>> is x.
None == <<>>
Some(x) == <<x>>

Max(a, b) == IF a >= b THEN a ELSE b
Min(a, b) == IF a <= b THEN a ELSE b

\* SITES (scraper_runner.py:21) is indeed, linkedin, glassdoor, google, glints. The
\* model fans out over three of the five, in their order: two boards that are
\* seeded and the one that is not, with two slots for three units.
SITES == <<"indeed", "linkedin", "glints">>
SiteSet == {SITES[i] : i \in 1..Len(SITES)}
SiteIndex(s) == CHOOSE i \in 1..Len(SITES) : SITES[i] = s

\* The job_sources rows seeded at start-up (main.py on_startup): glints is not.
job_sources == {"indeed", "linkedin", "glassdoor", "google"}

\* job_url cells of a raw record: a missing cell, a blank string, URLs, and a URL
\* with surrounding white space.
PyNone == "<None>"
RawUrls == {PyNone, " ", "u1", " u1", "u2"}
\* title cells: a string, or an array-valued cell, whose truth value Python refuses
\* to take (line 61 raises ValueError on it).
RawRecords ==
    [job_url : RawUrls, title : {"title"}] \cup {[job_url |-> "u1", title |-> "<array>"]}

\* str.strip()
Strip(v) == CASE v = " " -> ""
              [] v = " u1" -> "u1"
              [] OTHER -> v

\* ------------------------------------------------------------------- state

VARIABLES
    settings,   \* app.config.settings: fixed when the process starts
    tasks,      \* scrape_tasks: task id -> None (no row) or Some(row)
    jobs,       \* jobs: the set of Job rows
    orch,       \* run_scrape_task per task: where the coroutine stands
    sem,        \* the asyncio.Semaphore of each run_scrape_task: free slots
    unit,       \* _bounded(site) per task and site: where the coroutine stands
    thread,     \* the worker thread of _scrape_one_site per task and site
    triggered,  \* trigger_scrape_completed_webhook calls per (task, site)
    fault,      \* per task: a scrape_tasks write of run_scrape_task raised
    written,    \* history: the rows of every chunk that was committed
    _sent_webhooks,       \* webhook.py:18
    _in_flight_webhooks,  \* webhook.py:19
    _sent_webhooks_lock,  \* webhook.py:17: 0 when free, else the thread holding it
    sender,     \* the threads started by trigger_scrape_completed_webhook
    clock,      \* the host clock behind datetime.utcnow
    deleter     \* a DELETE /internal/scrape/{task_id} request: where the handler stands

ovars == <<settings, tasks, jobs, orch, sem, unit, thread, triggered, fault, written>>
svars == <<_sent_webhooks, _in_flight_webhooks, _sent_webhooks_lock>>
wvars == <<svars, sender>>
evars == <<clock, deleter>>
vars == <<ovars, wvars, evars>>

\* ------------------------------------------------------- pure functions

\* _chunked (scraper_runner.py:26-28)
_chunked(items, chunk_size) ==
    LET size == Max(1, chunk_size)
        n == Len(items)
        starts == {i \in 0..(n - 1) : i % size = 0}
        count == Cardinality(starts)
    IN [k \in 1..count |-> SubSeq(items, (k - 1) * size + 1, Min(k * size, n))]

\* _as_optional_str (scraper_runner.py:31-39) on a string or None
_as_optional_str(value) ==
    IF value = PyNone THEN None
    ELSE IF Strip(value) # "" THEN Some(Strip(value)) ELSE None

\* _normalize_job_record (scraper_runner.py:42-76): "none" (discarded), "raise"
\* (an exception leaves the function) or "row" with the canonical record. new_id is
\* the uuid4 of line 59.
_normalize_job_record(raw, source_id, site, new_id) ==
    IF raw.job_url = PyNone \/ raw.job_url = ""
    THEN [kind |-> "none"]
    ELSE IF raw.title = "<array>"
    THEN [kind |-> "raise"]
    ELSE [kind |-> "row",
          row |-> [id |-> new_id, source_id |-> source_id,
                   url |-> _as_optional_str(raw.job_url), source |-> site]]

\* Lines 158-163: the rows of a DataFrame, in order; "raise" when a record raises.
RECURSIVE NormalizeFrom(_, _, _, _)
NormalizeFrom(df, i, t, site) ==
    IF i > Len(df) THEN [kind |-> "rows", rows |-> <<>>]
    ELSE LET n == _normalize_job_record(df[i], site, site, <<t, site, i>>)
             rest == NormalizeFrom(df, i + 1, t, site)
         IN IF n.kind = "raise" \/ rest.kind = "raise" THEN [kind |-> "raise"]
            ELSE IF n.kind = "none" THEN rest
            ELSE [kind |-> "rows", rows |-> <<n.row>> \o rest.rows]

\* A row collides with the table on the ON CONFLICT target (source_id, url); SQL NULL
\* equals nothing, so a row without url never collides.
Conflicts(table, row) ==
    /\ row.url # None
    /\ \E r \in table : r.source_id = row.source_id /\ r.url = row.url

\* on_conflict_do_update in place of on_conflict_do_nothing: a colliding row
\* replaces the row that is there.
RECURSIVE InsertIgnore_upsert(_, _)
InsertIgnore_upsert(table, chunk) ==
    IF chunk = <<>> THEN table
    ELSE LET row == Head(chunk)
             kept == {r \in table : ~(r.source_id = row.source_id /\ r.url = row.url)}
         IN InsertIgnore_upsert(kept \cup {row}, Tail(chunk))

\* pg_insert(Job).values(chunk).on_conflict_do_nothing(index_elements=[source_id, url])
\* (scraper_runner.py:170-173): the rows go in one by one, a colliding row is skipped.
RECURSIVE InsertIgnore(_, _)
InsertIgnore(table, chunk) ==
    IF chunk = <<>> THEN table
    ELSE InsertIgnore(IF Conflicts(table, Head(chunk)) THEN table
                      ELSE table \cup {Head(chunk)},
                      Tail(chunk))

\* The DataFrames an adapter call may return.
DataFrames == UNION {[1..n -> RawRecords] : n \in 0..MaxRecords}

\* ------------------------------------------------------------------ rows

TaskRow(status, total_found, error_message, updated_at) ==
    [status |-> status, total_found |-> total_found, error_message |-> error_message,
     updated_at |-> updated_at]

\* datetime.utcnow() at a write to a row last stamped prev: the wall clock, read as
\* its distance from that stamp. A steady clock has moved on; a clock that is set
\* (NTP step, manual change) or too coarse reads earlier, the same, or later.
ClockKinds == {"steady", "adjusted"}
utcnow(prev) == IF clock = "steady" THEN {prev + 1} ELSE {prev - 1, prev, prev + 1}

\* updated_at of the row of task t; 0 stands for the reading at its creation.
LastStamp(t) == IF tasks[t] = None THEN 0 ELSE tasks[t][1].updated_at

\* update(ScrapeTask).where(ScrapeTask.id == task_uuid).values(...) and commit: the
\* row with the listed columns set; where no row matches, nothing changes.
UpdateRunning(t, now) ==
    IF tasks[t] = None THEN tasks
    ELSE [tasks EXCEPT ![t] =
            Some([tasks[t][1] EXCEPT !.status = "running", !.updated_at = now,
                                     !.error_message = None])]

\* The completed write without total_found among its values.
UpdateCompleted_statusOnly(t, total_found, now) ==
    IF tasks[t] = None THEN tasks
    ELSE [tasks EXCEPT ![t] =
            Some([tasks[t][1] EXCEPT !.status = "completed", !.updated_at = now])]

\* Lines 255-264: the completed write.
UpdateCompleted(t, total_found, now) ==
    IF tasks[t] = None THEN tasks
    ELSE [tasks EXCEPT ![t] =
            Some([tasks[t][1] EXCEPT !.status = "completed",
                                     !.total_found = Some(total_found),
                                     !.updated_at = now])]

\* The failed write as an insert-or-update: where no row matches, one is made.
UpdateFailed_upserts(t, message, now) ==
    IF tasks[t] = None
    THEN [tasks EXCEPT ![t] = Some(TaskRow("failed", None, Some(message), now))]
    ELSE [tasks EXCEPT ![t] =
            Some([tasks[t][1] EXCEPT !.status = "failed",
                                     !.error_message = Some(message),
                                     !.updated_at = now])]

\* Lines 274-283: the failed write.
UpdateFailed(t, message, now) ==
    IF tasks[t] = None THEN tasks
    ELSE [tasks EXCEPT ![t] =
            Some([tasks[t][1] EXCEPT !.status = "failed",
                                     !.error_message = Some(message),
                                     !.updated_at = now])]

StatusOf(t) == IF tasks[t] = None THEN "absent" ELSE tasks[t][1].status

IdleUnit == [pc |-> "idle", chunks |-> <<>>, found |-> 0, res |-> None, how |-> "-"]
DoneUnit(res, found, how) ==
    [pc |-> "done", chunks |-> <<>>, found |-> found, res |-> res, how |-> how]

\* What _bounded hands to gather: an int, or the exception that left the unit.
Returned(n) == Some([ok |-> TRUE, n |-> n])
Raised == Some([ok |-> FALSE, n |-> 0])

\* ------------------------------------------------------------------- Init

\* The threads trigger_scrape_completed_webhook can start: up to MaxSenders for each
\* (task, source), numbered by key and by their order within the key.
TaskIndex(t) == IF t = FirstTask THEN 1 ELSE 2
SenderIds == 1..(Cardinality(TaskIds) * Len(SITES) * MaxSenders)
SlotOf(k, n) == ((TaskIndex(k[1]) - 1) * Len(SITES) + SiteIndex(k[2]) - 1) * MaxSenders + n

\* A sender thread that was not started.
NoSender ==
    [pc |-> "none", key |-> <<>>, attempt |-> 0, posts |-> 0, status |-> None,
     out |-> "-"]

InitNotifier ==
    /\ _sent_webhooks = {}
    /\ _in_flight_webhooks = {}
    /\ _sent_webhooks_lock = 0
    /\ sender = [i \in SenderIds |-> NoSender]

\* An attribute of the settings object: None where it is missing, else its value.
Attr(values) == {None} \cup {Some(v) : v \in values}

\* The deployments of the orchestrator: the settings object as config.py builds it
\* (none of the three attributes), and with any of them set from outside.
InitSettings ==
    settings \in [SITES_CONCURRENCY : Attr(Concurrencies),
                  SLOW_SCRAPE_THRESHOLD_SECONDS : Attr({10}),
                  DB_INSERT_CHUNK_SIZE : Attr(ChunkSizes),
                  GO_BACKEND_URL : {"http://backend"},
                  INTERNAL_TOKEN : {"secret"},
                  WEBHOOK_MAX_RETRIES : {MaxAttempts}]

\* No delete request.
NoDelete == [pc |-> "none", force |-> FALSE, seen |-> "-", was |-> "-", out |-> "-"]

\* A host whose clock is steady, and no administrative request.
InitEnvironment ==
    /\ clock = "steady"
    /\ deleter = NoDelete

InitOrchestrator ==
    /\ tasks = [t \in TaskIds |-> None]
    /\ jobs = {}
    /\ orch = [t \in TaskIds |-> "none"]
    /\ sem = [t \in TaskIds |-> 0]
    /\ unit = [t \in TaskIds |-> [s \in SiteSet |-> IdleUnit]]
    /\ thread = [t \in TaskIds |-> [s \in SiteSet |-> "none"]]
    /\ triggered = [t \in TaskIds |-> [s \in SiteSet |-> 0]]
    /\ fault = [t \in TaskIds |-> FALSE]
    /\ written = {}

\* ---------------------------------------------------------------- actions

\* trigger_scrape_completed_webhook (webhook.py:161-166): threading.Thread(...)
\* .start() makes the next thread of key k, which stands at line 23.
StartThread(k) ==
    [sender EXCEPT ![SlotOf(k, Cardinality({i \in SenderIds : sender[i].key = k}) + 1)] =
                        [NoSender EXCEPT !.pc = "L23", !.key = k]]

\* The calls of scraper_runner.py lines 120, 145, 155 and 202: the thread is started
\* inside the call, in the step of the unit that makes it.
Trigger(t, s) ==
    /\ triggered' = [triggered EXCEPT ![t][s] = @ + 1]
    /\ sender' = StartThread(<<t, s>>)

\* Lines 226 and 228 find the attributes they read.
HasFanOutSettings ==
    /\ settings.SITES_CONCURRENCY # None
    /\ settings.SLOW_SCRAPE_THRESHOLD_SECONDS # None

\* chunk_size (line 166)
chunk_size ==
    IF settings.DB_INSERT_CHUNK_SIZE = None THEN DefaultChunkSize
    ELSE IF settings.DB_INSERT_CHUNK_SIZE[1] = 0 THEN DefaultChunkSize
    ELSE settings.DB_INSERT_CHUNK_SIZE[1]

\* create_scrape (routes_scrape.py:17-25): the row is committed as pending and
\* run_scrape_task is scheduled on the event loop.
create_scrape(t) ==
    /\ orch[t] = "none"
    /\ tasks[t] = None
    /\ tasks' = [tasks EXCEPT ![t] = Some(TaskRow("pending", None, None, 0))]
    /\ orch' = [orch EXCEPT ![t] = "L210"]
    /\ UNCHANGED <<wvars, evars, written, settings, jobs, sem, unit, thread, triggered, fault>>

\* Lines 210-216 with the running write left unawaited: run_scrape_task goes on
\* while the row is as it was.
MarkRunning_unawaited(t) ==
    /\ orch[t] = "L210"
    /\ orch' = [orch EXCEPT ![t] = "L218"]
    /\ UNCHANGED <<wvars, evars, written, settings, tasks, jobs, sem, unit, thread, triggered, fault>>

\* run_scrape_task lines 210-216: the running write commits (`await db.commit()`,
\* line 216) and the event loop is free to run the other coroutines before
\* run_scrape_task is resumed at line 218.
MarkRunning(t) ==
    /\ orch[t] = "L210"
    /\ \E now \in utcnow(LastStamp(t)) : tasks' = UpdateRunning(t, now)
    /\ orch' = [orch EXCEPT ![t] = "L218"]
    /\ UNCHANGED <<wvars, evars, written, settings, jobs, sem, unit, thread, triggered, fault>>

\* run_scrape_task lines 218-242, once resumed after the commit. The log call of
\* lines 222-229 reads settings.SITES_CONCURRENCY and
\* settings.SLOW_SCRAPE_THRESHOLD_SECONDS: where the settings object has both, the
\* semaphore is made and gather schedules one _bounded per site; where one is
\* missing, AttributeError is raised inside the try of line 220 and the except of
\* line 272 takes over.
FanOut(t) ==
    /\ orch[t] = "L218"
    /\ IF HasFanOutSettings
       THEN /\ orch' = [orch EXCEPT ![t] = "L242"]
            /\ sem' = [sem EXCEPT ![t] = Max(1, settings.SITES_CONCURRENCY[1])]
            /\ unit' = [unit EXCEPT ![t] =
                          [s \in SiteSet |-> [IdleUnit EXCEPT !.pc = "L234"]]]
       ELSE /\ orch' = [orch EXCEPT ![t] = "L273"]
            /\ UNCHANGED <<sem, unit>>
    /\ UNCHANGED <<wvars, evars, written, settings, tasks, jobs, thread, triggered, fault>>

\* run_scrape_task lines 210-216: execute or commit raises. The block is outside the
\* try of line 220: the exception leaves run_scrape_task.
MarkRunningRaises(t) ==
    /\ orch[t] = "L210"
    /\ orch' = [orch EXCEPT ![t] = "raised"]
    /\ fault' = [fault EXCEPT ![t] = TRUE]
    /\ UNCHANGED <<wvars, evars, written, settings, tasks, jobs, sem, unit, thread, triggered>>

\* `async with sem` (line 234): asyncio.Semaphore hands its slots out first come,
\* first served, and gather starts the units in SITES order.
Acquire(t, s) ==
    /\ orch[t] = "L242"
    /\ unit[t][s].pc = "L234"
    /\ sem[t] > 0
    /\ \A o \in SiteSet : SiteIndex(o) < SiteIndex(s) => unit[t][o].pc # "L234"
    /\ sem' = [sem EXCEPT ![t] = @ - 1]
    /\ unit' = [unit EXCEPT ![t][s].pc = "L113"]
    /\ UNCHANGED <<wvars, evars, written, settings, tasks, jobs, orch, thread, triggered, fault>>

\* The unit is over: its result goes to gather and `async with sem` frees the slot.
Finish(t, s, res, found, how) ==
    /\ unit' = [unit EXCEPT ![t][s] = DoneUnit(res, found, how)]
    /\ sem' = [sem EXCEPT ![t] = @ + 1]

\* _scrape_site_and_store lines 113-121: the site has no job_sources row.
SourceUnseeded(t, s) ==
    /\ unit[t][s].pc = "L113"
    /\ s \notin job_sources
    /\ Trigger(t, s)
    /\ Finish(t, s, Returned(0), 0, "unseeded")
    /\ UNCHANGED <<svars, evars, written, settings, tasks, jobs, orch, thread, fault>>

\* Lines 113 and 123-129: the source is resolved and the adapter call starts in a
\* worker thread. Whether that call ever returns is the adapter's doing.
StartAdapter(t, s) ==
    /\ unit[t][s].pc = "L113"
    /\ s \in job_sources
    /\ \E th \in {"running", "hung"} : thread' = [thread EXCEPT ![t][s] = th]
    /\ unit' = [unit EXCEPT ![t][s].pc = "L126"]
    /\ UNCHANGED <<wvars, evars, written, settings, tasks, jobs, orch, sem, triggered, fault>>

\* _get_source_id (lines 93-100) raises: nothing in _scrape_site_and_store catches it.
LookupRaises(t, s) ==
    /\ unit[t][s].pc = "L113"
    /\ Finish(t, s, Raised, 0, "lookup_raised")
    /\ UNCHANGED <<wvars, evars, written, settings, tasks, jobs, orch, thread, triggered, fault>>

\* A wait_for that waits for the worker thread to end before it gives up: a call
\* that never returns is never abandoned.
Timeout_joinsThread(t, s) ==
    /\ unit[t][s].pc = "L126"
    /\ thread[t][s] = "running"
    /\ Trigger(t, s)
    /\ unit' = [unit EXCEPT ![t][s] = DoneUnit(Returned(0), 0, "timeout")]
    /\ sem' = [sem EXCEPT ![t] = @ + 1]
    /\ UNCHANGED <<svars, evars, written, settings, tasks, jobs, orch, thread, fault>>

\* Lines 130-146: wait_for gives up after SCRAPE_TIMEOUT_SECONDS. The worker thread
\* keeps running.
Timeout(t, s) ==
    /\ unit[t][s].pc = "L126"
    /\ thread[t][s] \in {"running", "hung"}
    /\ Trigger(t, s)
    /\ Finish(t, s, Returned(0), 0, "timeout")
    /\ UNCHANGED <<svars, evars, written, settings, tasks, jobs, orch, thread, fault>>

\* Lines 132-146: scrape_jobs raises.
AdapterRaises(t, s) ==
    /\ unit[t][s].pc = "L126"
    /\ thread[t][s] = "running"
    /\ thread' = [thread EXCEPT ![t][s] = "returned"]
    /\ Trigger(t, s)
    /\ Finish(t, s, Returned(0), 0, "error")
    /\ UNCHANGED <<svars, evars, written, settings, tasks, jobs, orch, fault>>

\* Lines 148-204 with found = len(rows) at line 183: the unit counts the records the
\* normalizer kept.
AdapterReturns_countsRows(t, s, df) ==
    /\ unit[t][s].pc = "L126"
    /\ thread[t][s] = "running"
    /\ thread' = [thread EXCEPT ![t][s] = "returned"]
    /\ LET norm == NormalizeFrom(df, 1, t, s) IN
        IF Len(df) = 0 THEN
            /\ Trigger(t, s)
            /\ Finish(t, s, Returned(0), 0, "empty")
        ELSE IF norm.kind = "raise" THEN
            /\ Finish(t, s, Raised, Len(df), "normalize_raised")
            /\ UNCHANGED <<triggered, sender>>
        ELSE IF norm.rows = <<>> THEN
            /\ Trigger(t, s)
            /\ Finish(t, s, Returned(0), 0, "stored")
        ELSE
            /\ unit' = [unit EXCEPT ![t][s] =
                  [pc |-> "L170", chunks |-> _chunked(norm.rows, chunk_size),
                   found |-> Len(norm.rows), res |-> None, how |-> "-"]]
            /\ UNCHANGED <<sem, triggered, sender>>
    /\ UNCHANGED <<svars, evars, written, settings, tasks, jobs, orch, fault>>

\* Lines 148-167 and 183-204 after scrape_jobs returned df: no results; a record that
\* makes the normalizer raise; no usable row; or the chunks to write.
AdapterReturns(t, s, df) ==
    /\ unit[t][s].pc = "L126"
    /\ thread[t][s] = "running"
    /\ thread' = [thread EXCEPT ![t][s] = "returned"]
    /\ LET norm == NormalizeFrom(df, 1, t, s) IN
        IF Len(df) = 0 THEN
            /\ Trigger(t, s)
            /\ Finish(t, s, Returned(0), 0, "empty")
        ELSE IF norm.kind = "raise" THEN
            /\ Finish(t, s, Raised, Len(df), "normalize_raised")
            /\ UNCHANGED <<triggered, sender>>
        ELSE IF norm.rows = <<>> THEN
            /\ Trigger(t, s)
            /\ Finish(t, s, Returned(Len(df)), Len(df), "stored")
        ELSE
            /\ unit' = [unit EXCEPT ![t][s] =
                  [pc |-> "L170", chunks |-> _chunked(norm.rows, chunk_size),
                   found |-> Len(df), res |-> None, how |-> "-"]]
            /\ UNCHANGED <<sem, triggered, sender>>
    /\ UNCHANGED <<svars, evars, written, settings, tasks, jobs, orch, fault>>

\* The abandoned worker thread of a timed-out call ends on its own.
AbandonedThreadEnds(t, s) ==
    /\ thread[t][s] = "running"
    /\ unit[t][s].pc # "L126"
    /\ thread' = [thread EXCEPT ![t][s] = "returned"]
    /\ UNCHANGED <<wvars, evars, written, settings, tasks, jobs, orch, sem, unit, triggered, fault>>

\* Lines 169-204 with the trigger of line 202 inside the loop: the webhook is
\* triggered after each chunk.
InsertChunk_triggersInLoop(t, s) ==
    /\ unit[t][s].pc = "L170"
    /\ jobs' = InsertIgnore(jobs, Head(unit[t][s].chunks))
    /\ written' = written \cup {Head(unit[t][s].chunks)[i] :
                                   i \in 1..Len(Head(unit[t][s].chunks))}
    /\ Trigger(t, s)
    /\ unit' = [unit EXCEPT ![t][s].chunks = Tail(@),
                            ![t][s].pc = IF Len(unit[t][s].chunks) > 1 THEN "L170" ELSE "L183"]
    /\ UNCHANGED <<svars, evars, settings, tasks, orch, sem, thread, fault>>

\* Lines 169-181: the next chunk is inserted and committed (`await db.commit()`,
\* line 171). After the last chunk the unit stands before line 183, with the event
\* loop free to run the other coroutines.
InsertChunk(t, s) ==
    /\ unit[t][s].pc = "L170"
    /\ jobs' = InsertIgnore(jobs, Head(unit[t][s].chunks))
    /\ written' = written \cup {Head(unit[t][s].chunks)[i] :
                                   i \in 1..Len(Head(unit[t][s].chunks))}
    /\ unit' = [unit EXCEPT ![t][s].chunks = Tail(@),
                            ![t][s].pc = IF Len(unit[t][s].chunks) > 1 THEN "L170" ELSE "L183"]
    /\ UNCHANGED <<wvars, evars, settings, tasks, orch, sem, thread, triggered, fault>>

\* Lines 183-204 and 233-234, once the unit is resumed after its last commit: the
\* webhook is triggered, the unit returns len(df) and its slot is freed.
ReturnFound(t, s) ==
    /\ unit[t][s].pc = "L183"
    /\ Trigger(t, s)
    /\ Finish(t, s, Returned(unit[t][s].found), unit[t][s].found, "stored")
    /\ UNCHANGED <<svars, evars, written, settings, tasks, jobs, orch, thread, fault>>

\* Lines 168-173 with one commit after the loop: a chunk that raises takes the
\* chunks of the unit written before it along.
InsertChunkRaises_rollsBack(t, s) ==
    /\ unit[t][s].pc = "L170"
    /\ jobs' = {r \in jobs : ~(r.id[1] = t /\ r.id[2] = s)}
    /\ Finish(t, s, Raised, unit[t][s].found, "insert_raised")
    /\ UNCHANGED <<wvars, evars, written, settings, tasks, orch, thread, triggered, fault>>

\* Lines 172-173: execute or commit of a chunk raises; the exception leaves the unit.
InsertChunkRaises(t, s) ==
    /\ unit[t][s].pc = "L170"
    /\ Finish(t, s, Raised, unit[t][s].found, "insert_raised")
    /\ UNCHANGED <<wvars, evars, written, settings, tasks, jobs, orch, thread, triggered, fault>>

\* Lines 243-252 with `break` for `continue`: the sum stops at the first unit that
\* raised.
RECURSIVE SumResults_stopsAtRaised(_, _)
SumResults_stopsAtRaised(t, i) ==
    IF i > Len(SITES) THEN 0
    ELSE LET res == unit[t][SITES[i]].res[1]
         IN IF res.ok THEN res.n + SumResults_stopsAtRaised(t, i + 1) ELSE 0

\* Lines 243-252: the sum of the int results; a unit that raised is skipped.
RECURSIVE SumResults(_, _)
SumResults(t, i) ==
    IF i > Len(SITES) THEN 0
    ELSE LET res == unit[t][SITES[i]].res[1]
         IN (IF res.ok THEN res.n ELSE 0) + SumResults(t, i + 1)

AllUnitsDone(t) == \A s \in SiteSet : unit[t][s].pc = "done"

\* Lines 242-264: gather has every result; the completed write commits.
MarkCompleted(t) ==
    /\ orch[t] = "L242"
    /\ AllUnitsDone(t)
    /\ \E now \in utcnow(LastStamp(t)) :
           tasks' = UpdateCompleted(t, SumResults(t, 1), now)
    /\ orch' = [orch EXCEPT ![t] = "done"]
    /\ UNCHANGED <<wvars, evars, written, settings, jobs, sem, unit, thread, triggered, fault>>

\* The exception of lines 254-264 arrives after the commit took effect.
MarkCompletedRaises_afterCommit(t) ==
    /\ orch[t] = "L242"
    /\ AllUnitsDone(t)
    /\ \E now \in utcnow(LastStamp(t)) :
           tasks' = UpdateCompleted(t, SumResults(t, 1), now)
    /\ orch' = [orch EXCEPT ![t] = "L273"]
    /\ fault' = [fault EXCEPT ![t] = TRUE]
    /\ UNCHANGED <<wvars, evars, written, settings, jobs, sem, unit, thread, triggered>>

\* Lines 254-264 raise: the except of line 272 takes over.
MarkCompletedRaises(t) ==
    /\ orch[t] = "L242"
    /\ AllUnitsDone(t)
    /\ orch' = [orch EXCEPT ![t] = "L273"]
    /\ fault' = [fault EXCEPT ![t] = TRUE]
    /\ UNCHANGED <<wvars, evars, written, settings, tasks, jobs, sem, unit, thread, triggered>>

\* str(e) of the exception the except of line 272 caught: the AttributeError of
\* line 226 or 228, or the exception of a store write.
ErrorMessage ==
    IF settings.SITES_CONCURRENCY = None
    THEN "'Settings' object has no attribute 'SITES_CONCURRENCY'"
    ELSE IF settings.SLOW_SCRAPE_THRESHOLD_SECONDS = None
    THEN "'Settings' object has no attribute 'SLOW_SCRAPE_THRESHOLD_SECONDS'"
    ELSE "str(e)"

\* Lines 272-283: the failed write commits, with str(e).
MarkFailed(t) ==
    /\ orch[t] = "L273"
    /\ \E now \in utcnow(LastStamp(t)) : tasks' = UpdateFailed(t, ErrorMessage, now)
    /\ orch' = [orch EXCEPT ![t] = "done"]
    /\ UNCHANGED <<wvars, evars, written, settings, jobs, sem, unit, thread, triggered, fault>>

\* Lines 273-283 raise in turn: the exception leaves run_scrape_task.
MarkFailedRaises(t) ==
    /\ orch[t] = "L273"
    /\ orch' = [orch EXCEPT ![t] = "raised"]
    /\ fault' = [fault EXCEPT ![t] = TRUE]
    /\ UNCHANGED <<wvars, evars, written, settings, tasks, jobs, sem, unit, thread, triggered>>

\* One step of the coroutines and threads of task t.
TaskStep(t) ==
    \/ MarkRunning(t)
    \/ FanOut(t)
    \/ MarkRunningRaises(t)
    \/ MarkCompleted(t)
    \/ MarkCompletedRaises(t)
    \/ MarkFailed(t)
    \/ MarkFailedRaises(t)
    \/ \E s \in SiteSet :
        \/ Acquire(t, s)
        \/ SourceUnseeded(t, s)
        \/ StartAdapter(t, s)
        \/ LookupRaises(t, s)
        \/ Timeout(t, s)
        \/ AdapterRaises(t, s)
        \/ \E df \in DataFrames : AdapterReturns(t, s, df)
        \/ AbandonedThreadEnds(t, s)
        \/ InsertChunk(t, s)
        \/ InsertChunkRaises(t, s)
        \/ ReturnFound(t, s)

Init == InitSettings /\ InitOrchestrator /\ InitNotifier /\ InitEnvironment

\* One scrape request: the steps of the event loop. The threads its triggers start
\* are there from the step of the trigger on; the steps they take are those of
\* NotifySpec.
Next ==
    \/ create_scrape(FirstTask)
    \/ TaskStep(FirstTask)

Spec == Init /\ [][Next]_vars

\* Two scrape requests at once, one slot each, with the steps that lead to the jobs
\* table: both tasks write the same boards, their chunks in any interleaving.
InitStore ==
    /\ InitSettings
    /\ InitOrchestrator
    /\ InitNotifier
    /\ InitEnvironment
    /\ settings.SITES_CONCURRENCY \in {None, Some(1)}

\* What the adapters return there: the first board any DataFrame, the others one
\* record with the URL u1, which the first board may have as well.
StoreFrames(s) ==
    IF s = SITES[1] THEN DataFrames ELSE {<<[job_url |-> "u1", title |-> "title"]>>}

StoreStep(t) ==
    \/ create_scrape(t)
    \/ MarkRunning(t)
    \/ FanOut(t)
    \/ MarkCompleted(t)
    \/ \E s \in SiteSet :
        \/ Acquire(t, s)
        \/ SourceUnseeded(t, s)
        \/ StartAdapter(t, s)
        \/ \E df \in StoreFrames(s) : AdapterReturns(t, s, df)
        \/ InsertChunk(t, s)
        \/ InsertChunkRaises(t, s)
        \/ ReturnFound(t, s)

NextStore == \E t \in TaskIds : StoreStep(t)

StoreSpec == InitStore /\ [][NextStore]_vars

\* ------------------------------------------------------------ administration

\* X-Internal-Token headers of a delete request.
Tokens == {"secret", "wrong"}

\* delete_scrape_task (routes_internal.py:18-43): the token is checked, the row is
\* selected, and the handler answers (401, 500, deleted=False, 409) or goes on to
\* issue the DELETE.
delete_scrape_task(t, force, x_internal_token) ==
    /\ deleter.pc = "none"
    /\ deleter' =
         IF settings.INTERNAL_TOKEN = ""
         THEN [NoDelete EXCEPT !.pc = "end", !.force = force, !.out = "500"]
         ELSE IF x_internal_token # settings.INTERNAL_TOKEN
         THEN [NoDelete EXCEPT !.pc = "end", !.force = force, !.out = "401"]
         ELSE IF tasks[t] = None
         THEN [NoDelete EXCEPT !.pc = "end", !.force = force, !.out = "not_deleted"]
         ELSE IF ~force /\ StatusOf(t) = "running"
         THEN [NoDelete EXCEPT !.pc = "end", !.force = force, !.seen = StatusOf(t),
                               !.out = "409"]
         ELSE [NoDelete EXCEPT !.pc = "L45", !.force = force, !.seen = StatusOf(t)]
    /\ UNCHANGED <<ovars, wvars, clock>>

\* Lines 45-48: the DELETE executes and commits. `was` keeps the status the row had
\* when it went.
DeleteCommits(t) ==
    /\ deleter.pc = "L45"
    /\ tasks' = [tasks EXCEPT ![t] = None]
    /\ deleter' = [deleter EXCEPT !.pc = "end", !.was = StatusOf(t), !.out = "deleted"]
    /\ UNCHANGED <<wvars, clock, written, settings, jobs, orch, sem, unit, thread,
                   triggered, fault>>

\* One scrape request and one delete request for its task.
NextDelete ==
    \/ Next
    \/ \E force \in BOOLEAN : \E tok \in Tokens : delete_scrape_task(FirstTask, force, tok)
    \/ DeleteCommits(FirstTask)

DeleteSpec == Init /\ [][NextDelete]_vars

\* One scrape request on a host of either clock kind.
InitClock ==
    /\ InitSettings
    /\ InitOrchestrator
    /\ InitNotifier
    /\ clock \in ClockKinds
    /\ deleter = NoDelete

ClockSpec == InitClock /\ [][Next]_vars

\* ---------------------------------------------------------------- notifier

\* dedupe_key = f"{task_id}:{source}" (webhook.py:37) of the triggers.
WebhookKeys == {<<FirstTask, SITES[1]>>, <<FirstTask, SITES[2]>>}

\* What requests.post comes back with: a response with a status code, or an
\* exception of requests (lines 75-80, 128-143).
StatusCodes == {200, 204, 301, 400, 401, 403, 404, 500}
PostExceptions == {"Timeout", "ConnectionError", "RequestException"}
Response(code) == [exc |-> "", status_code |-> code]
Raises(e) == [exc |-> e, status_code |-> 0]
Outcomes == {Response(c) : c \in StatusCodes} \cup {Raises(e) : e \in PostExceptions}

\* Lines 84-143 with the final else branch retrying instead of giving up.
Classify_retryOther(r) ==
    IF r.exc # "" THEN "retriable"
    ELSE IF 200 <= r.status_code /\ r.status_code < 300 THEN "success"
    ELSE IF r.status_code \in {400, 401, 403} THEN "permanent"
    ELSE "retriable"

\* Lines 84-143: what the loop body does with the outcome of requests.post.
Classify(r) ==
    IF r.exc # "" THEN "retriable"
    ELSE IF 200 <= r.status_code /\ r.status_code < 300 THEN "success"
    ELSE IF r.status_code \in {400, 401, 403} THEN "permanent"
    ELSE IF r.status_code >= 500 THEN "retriable"
    ELSE "permanent"

\* max_retries (line 60)
max_retries == Max(1, settings.WEBHOOK_MAX_RETRIES)

\* backoff (line 146)
Backoff(attempt) == IF attempt >= 2 THEN 2 ^ (attempt - 2) ELSE 0

Configured == settings.GO_BACKEND_URL # "" /\ settings.INTERNAL_TOKEN # ""

\* The call returns: its locals are gone; what it did (out, posts) is kept.
EndSender(i, out) ==
    [sender EXCEPT ![i].pc = "end", ![i].out = out, ![i].attempt = 0, ![i].status = None]

\* trigger_scrape_completed_webhook (lines 161-166) called for key k, up to
\* MaxSenders times in all.
trigger_scrape_completed_webhook(k) ==
    /\ Cardinality({i \in SenderIds : sender[i].pc # "none"}) < MaxSenders
    /\ sender' = StartThread(k)
    /\ UNCHANGED <<ovars, evars, svars>>

\* Lines 23-37 without the token test of line 30.
CheckConfigured_urlOnly(i) ==
    /\ sender[i].pc = "L23"
    /\ sender' = IF settings.GO_BACKEND_URL # "" THEN [sender EXCEPT ![i].pc = "L39"]
                 ELSE EndSender(i, "unconfigured")
    /\ UNCHANGED <<ovars, evars, _sent_webhooks, _in_flight_webhooks, _sent_webhooks_lock>>

\* Lines 23-37: without endpoint or token the call returns at once.
CheckConfigured(i) ==
    /\ sender[i].pc = "L23"
    /\ sender' = IF Configured THEN [sender EXCEPT ![i].pc = "L39"]
                 ELSE EndSender(i, "unconfigured")
    /\ UNCHANGED <<ovars, evars, _sent_webhooks, _in_flight_webhooks, _sent_webhooks_lock>>

\* `with _sent_webhooks_lock` (lines 39, 91, 104, 124, 157): the thread waits for the
\* lock and holds it; `to` is where it stands inside the block.
LockAcquire(i, from, to) ==
    /\ sender[i].pc = from
    /\ _sent_webhooks_lock = 0
    /\ _sent_webhooks_lock' = i
    /\ sender' = [sender EXCEPT ![i].pc = to]
    /\ UNCHANGED <<ovars, evars, _sent_webhooks, _in_flight_webhooks>>

EnterLock(i) ==
    \/ LockAcquire(i, "L39", "L40")
    \/ LockAcquire(i, "L91", "L92")
    \/ LockAcquire(i, "L104", "L105")
    \/ LockAcquire(i, "L157", "L158")

\* Lines 40-65 without the in-flight test of line 42.
Dedupe_sentOnly(i) ==
    /\ sender[i].pc = "L40"
    /\ _sent_webhooks_lock' = 0
    /\ IF sender[i].key \in _sent_webhooks
       THEN /\ sender' = EndSender(i, "dropped")
            /\ UNCHANGED _in_flight_webhooks
       ELSE /\ sender' = [sender EXCEPT ![i].pc = "L75", ![i].attempt = 1]
            /\ _in_flight_webhooks' = _in_flight_webhooks \cup {sender[i].key}
    /\ UNCHANGED <<ovars, evars, _sent_webhooks>>

\* Lines 40-65 without the sent test of line 40.
Dedupe_inFlightOnly(i) ==
    /\ sender[i].pc = "L40"
    /\ _sent_webhooks_lock' = 0
    /\ IF sender[i].key \in _in_flight_webhooks
       THEN /\ sender' = EndSender(i, "dropped")
            /\ UNCHANGED _in_flight_webhooks
       ELSE /\ sender' = [sender EXCEPT ![i].pc = "L75", ![i].attempt = 1]
            /\ _in_flight_webhooks' = _in_flight_webhooks \cup {sender[i].key}
    /\ UNCHANGED <<ovars, evars, _sent_webhooks>>

\* Lines 39-65 with the loop inside the `with` block of line 39: the thread goes on
\* to its first request with the lock held.
Dedupe_keepsLock(i) ==
    /\ sender[i].pc = "L40"
    /\ IF sender[i].key \in _sent_webhooks \/ sender[i].key \in _in_flight_webhooks
       THEN /\ sender' = EndSender(i, "dropped")
            /\ _sent_webhooks_lock' = 0
            /\ UNCHANGED _in_flight_webhooks
       ELSE /\ sender' = [sender EXCEPT ![i].pc = "L75", ![i].attempt = 1]
            /\ _in_flight_webhooks' = _in_flight_webhooks \cup {sender[i].key}
            /\ UNCHANGED _sent_webhooks_lock
    /\ UNCHANGED <<ovars, evars, _sent_webhooks>>

\* Lines 40-65 inside the lock: a key already delivered or being delivered is
\* dropped; otherwise it is marked in flight and the loop is entered.
Dedupe(i) ==
    /\ sender[i].pc = "L40"
    /\ _sent_webhooks_lock' = 0
    /\ IF sender[i].key \in _sent_webhooks \/ sender[i].key \in _in_flight_webhooks
       THEN /\ sender' = EndSender(i, "dropped")
            /\ UNCHANGED _in_flight_webhooks
       ELSE /\ sender' = [sender EXCEPT ![i].pc = "L75", ![i].attempt = 1]
            /\ _in_flight_webhooks' = _in_flight_webhooks \cup {sender[i].key}
    /\ UNCHANGED <<ovars, evars, _sent_webhooks>>

\* Lines 145-148 with range(1, max_retries + 2): one round too many.
AfterRetriable_oneMore(i, r) ==
    IF sender[i].attempt <= max_retries
    THEN [sender EXCEPT ![i].posts = @ + 1, ![i].status = Some(r),
                        ![i].pc = IF Backoff(sender[i].attempt) > 0 THEN "L148" ELSE "L75",
                        ![i].attempt = IF Backoff(sender[i].attempt) > 0 THEN @ ELSE @ + 1]
    ELSE [sender EXCEPT ![i].posts = @ + 1, ![i].status = Some(r), ![i].pc = "L157"]

\* Lines 145-148 after a retriable outcome: sleep when a backoff is due and go
\* round the loop, or leave the loop after the last attempt.
AfterRetriable(i, r) ==
    IF sender[i].attempt < max_retries
    THEN [sender EXCEPT ![i].posts = @ + 1, ![i].status = Some(r),
                        ![i].pc = IF Backoff(sender[i].attempt) > 0 THEN "L148" ELSE "L75",
                        ![i].attempt = IF Backoff(sender[i].attempt) > 0 THEN @ ELSE @ + 1]
    ELSE [sender EXCEPT ![i].posts = @ + 1, ![i].status = Some(r), ![i].pc = "L157"]

\* Lines 65-143: one attempt; requests.post sends the request and returns a
\* response or raises.
Post(i, r) ==
    /\ sender[i].pc = "L75"
    /\ sender' =
         CASE Classify(r) = "success" ->
                [sender EXCEPT ![i].posts = @ + 1, ![i].status = Some(r), ![i].pc = "L91"]
           [] Classify(r) = "permanent" ->
                [sender EXCEPT ![i].posts = @ + 1, ![i].status = Some(r), ![i].pc = "L104"]
           [] OTHER -> AfterRetriable(i, r)
    /\ UNCHANGED <<ovars, evars, _sent_webhooks, _in_flight_webhooks, _sent_webhooks_lock>>

\* Line 148: time.sleep(backoff) is over.
Wake(i) ==
    /\ sender[i].pc = "L148"
    /\ sender' = [sender EXCEPT ![i].pc = "L75", ![i].attempt = @ + 1]
    /\ UNCHANGED <<ovars, evars, _sent_webhooks, _in_flight_webhooks, _sent_webhooks_lock>>

\* Lines 91-94 without the discard of line 93.
MarkSent_keepsInFlight(i) ==
    /\ sender[i].pc = "L92"
    /\ _sent_webhooks' = _sent_webhooks \cup {sender[i].key}
    /\ _sent_webhooks_lock' = 0
    /\ sender' = EndSender(i, "sent")
    /\ UNCHANGED <<ovars, evars, _in_flight_webhooks>>

\* Lines 91-94: success.
MarkSent(i) ==
    /\ sender[i].pc = "L92"
    /\ _sent_webhooks' = _sent_webhooks \cup {sender[i].key}
    /\ _in_flight_webhooks' = _in_flight_webhooks \ {sender[i].key}
    /\ _sent_webhooks_lock' = 0
    /\ sender' = EndSender(i, "sent")
    /\ UNCHANGED <<ovars, evars>>

\* Lines 104-106 and 124-126 with the failure written to the task row.
DiscardPermanent_failsTask(i) ==
    /\ sender[i].pc = "L105"
    /\ _in_flight_webhooks' = _in_flight_webhooks \ {sender[i].key}
    /\ _sent_webhooks_lock' = 0
    /\ sender' = EndSender(i, "permanent")
    /\ tasks' = UpdateFailed(sender[i].key[1], "webhook", LastStamp(sender[i].key[1]) + 1)
    /\ UNCHANGED <<evars, _sent_webhooks, written, settings, jobs, orch, sem, unit, thread,
                   triggered, fault>>

\* Lines 104-106 and 124-126: permanent failure.
DiscardPermanent(i) ==
    /\ sender[i].pc = "L105"
    /\ _in_flight_webhooks' = _in_flight_webhooks \ {sender[i].key}
    /\ _sent_webhooks_lock' = 0
    /\ sender' = EndSender(i, "permanent")
    /\ UNCHANGED <<ovars, evars, _sent_webhooks>>

\* Lines 150-158 without the discard of line 158.
DiscardExhausted_keepsInFlight(i) ==
    /\ sender[i].pc = "L158"
    /\ _sent_webhooks_lock' = 0
    /\ sender' = EndSender(i, "exhausted")
    /\ UNCHANGED <<ovars, evars, _sent_webhooks, _in_flight_webhooks>>

\* Lines 150-158: the attempts are used up.
DiscardExhausted(i) ==
    /\ sender[i].pc = "L158"
    /\ _in_flight_webhooks' = _in_flight_webhooks \ {sender[i].key}
    /\ _sent_webhooks_lock' = 0
    /\ sender' = EndSender(i, "exhausted")
    /\ UNCHANGED <<ovars, evars, _sent_webhooks>>

\* One step of sender thread i.
SenderStep(i) ==
    \/ CheckConfigured(i)
    \/ EnterLock(i)
    \/ Dedupe(i)
    \/ \E r \in Outcomes : Post(i, r)
    \/ Wake(i)
    \/ MarkSent(i)
    \/ DiscardPermanent(i)
    \/ DiscardExhausted(i)

\* The deployments of the notifier.
InitWebhook ==
    /\ InitNotifier
    /\ InitOrchestrator
    /\ InitEnvironment
    /\ settings \in [SITES_CONCURRENCY : {None},
                    SLOW_SCRAPE_THRESHOLD_SECONDS : {None},
                    DB_INSERT_CHUNK_SIZE : {None},
                    GO_BACKEND_URL : {"", "http://backend"},
                    INTERNAL_TOKEN : {"", "secret"},
                    WEBHOOK_MAX_RETRIES : 0..MaxAttempts]

NextWebhook ==
    \/ \E k \in WebhookKeys : trigger_scrape_completed_webhook(k)
    \/ \E i \in SenderIds : SenderStep(i)

\* Triggers and sender threads.
WebhookSpec == InitWebhook /\ [][NextWebhook]_vars

\* trigger_scrape_completed_webhook (lines 161-166) called for key k for the first
\* time, or again while the first send for k has not returned.
trigger_before_resolved(k) ==
    /\ sender[SlotOf(k, 1)].pc # "end"
    /\ trigger_scrape_completed_webhook(k)

NextDedupe ==
    \/ \E k \in WebhookKeys : trigger_before_resolved(k)
    \/ \E i \in SenderIds : SenderStep(i)

\* Sender threads whose triggers for one key all come before the key's first send
\* has resolved; the threads run in any interleaving.
DedupeSpec == InitWebhook /\ [][NextDedupe]_vars

\* What the adapters return where the deliveries run along: nothing, or one record.
NotifyFrames == {<<>>, <<[job_url |-> "u1", title |-> "title"]>>}

NotifyStep(t) ==
    \/ create_scrape(t)
    \/ MarkRunning(t)
    \/ FanOut(t)
    \/ MarkCompleted(t)
    \/ MarkCompletedRaises(t)
    \/ MarkFailed(t)
    \/ \E s \in SiteSet :
        \/ Acquire(t, s)
        \/ SourceUnseeded(t, s)
        \/ StartAdapter(t, s)
        \/ Timeout(t, s)
        \/ AdapterRaises(t, s)
        \/ \E df \in NotifyFrames : AdapterReturns(t, s, df)
        \/ AbandonedThreadEnds(t, s)
        \/ InsertChunk(t, s)
        \/ InsertChunkRaises(t, s)
        \/ ReturnFound(t, s)

\* What the endpoint answers there: success, a permanent and a retriable failure.
NotifyOutcomes == {Response(200), Response(404), Response(500)}

\* One step of sender thread i where every send has a single attempt (no sleep).
NotifySenderStep(i) ==
    \/ CheckConfigured(i)
    \/ EnterLock(i)
    \/ Dedupe(i)
    \/ \E r \in NotifyOutcomes : Post(i, r)
    \/ MarkSent(i)
    \/ DiscardPermanent(i)
    \/ DiscardExhausted(i)

\* The webhook configured, with one attempt per send; the settings object as
\* config.py builds it, or with the three attributes set.
InitNotify ==
    /\ InitNotifier
    /\ InitOrchestrator
    /\ InitEnvironment
    /\ settings \in [SITES_CONCURRENCY : {None, Some(2)},
                    SLOW_SCRAPE_THRESHOLD_SECONDS : {None, Some(10)},
                    DB_INSERT_CHUNK_SIZE : {None, Some(1)},
                    GO_BACKEND_URL : {"http://backend"},
                    INTERNAL_TOKEN : {"secret"},
                    WEBHOOK_MAX_RETRIES : {1}]

NextNotify ==
    \/ NotifyStep(FirstTask)
    \/ \E i \in SenderIds : NotifySenderStep(i)

\* One scrape request with the sender threads its units start.
NotifySpec == InitNotify /\ [][NextNotify]_vars

\* Lines 75-80 and 128-143: requests.post raises an exception that is not a
\* requests.RequestException (the ValueError of a timeout that is not positive, with
\* WEBHOOK_TIMEOUT_SECONDS=0). No except clause names it and there is no finally:
\* it leaves send_scrape_completed_webhook and the thread ends.
PostEscapes(i) ==
    /\ sender[i].pc = "L75"
    /\ sender' = EndSender(i, "escaped")
    /\ UNCHANGED <<ovars, evars, _sent_webhooks, _in_flight_webhooks, _sent_webhooks_lock>>

NextEscape ==
    \/ NextWebhook
    \/ \E i \in SenderIds : PostEscapes(i)

\* Triggers and sender threads, with every way a send can end.
EscapeSpec == InitWebhook /\ [][NextEscape]_vars

\* What the endpoint answers where the delays are looked at: success, and the two
\* kinds of retriable failure.
BackoffOutcomes == {Response(200), Response(500), Raises("Timeout")}

BackoffSenderStep(i) ==
    \/ CheckConfigured(i)
    \/ LockAcquire(i, "L39", "L40")
    \/ LockAcquire(i, "L91", "L92")
    \/ LockAcquire(i, "L157", "L158")
    \/ Dedupe(i)
    \/ \E r \in BackoffOutcomes : Post(i, r)
    \/ Wake(i)
    \/ MarkSent(i)
    \/ DiscardExhausted(i)

\* Deployments with any attempt count up to MaxBackoffAttempts.
InitBackoff ==
    /\ InitNotifier
    /\ InitOrchestrator
    /\ InitEnvironment
    /\ settings \in [SITES_CONCURRENCY : {None},
                    SLOW_SCRAPE_THRESHOLD_SECONDS : {None},
                    DB_INSERT_CHUNK_SIZE : {None},
                    GO_BACKEND_URL : {"http://backend"},
                    INTERNAL_TOKEN : {"secret"},
                    WEBHOOK_MAX_RETRIES : 0..MaxBackoffAttempts]

NextBackoff ==
    \/ trigger_scrape_completed_webhook(<<FirstTask, SITES[1]>>)
    \/ \E i \in SenderIds : BackoffSenderStep(i)

\* Sends of one key against an endpoint that fails retriably.
BackoffSpec == InitBackoff /\ [][NextBackoff]_vars

\* The event loop runs every coroutine that can run, every database call returns or
\* raises, and every wait_for ends: with the adapter's result or with the timeout.
FairSpec == Spec /\ WF_vars(TaskStep(FirstTask))

\* ------------------------------------------------------------------ claims

\* The adapter calls of task t in flight: started in a worker thread, not returned.
InFlight(t) == {s \in SiteSet : thread[t][s] \in {"running", "hung"}}

\* The concurrency cap of line 231; without the setting no semaphore is made and no
\* unit runs.
Cap == IF settings.SITES_CONCURRENCY = None THEN 0
       ELSE Max(1, settings.SITES_CONCURRENCY[1])

\* The sum, over the sites whose unit went through, of the length of the DataFrame
\* its own adapter call returned.
RECURSIVE SucceededTotal(_, _)
SucceededTotal(t, i) ==
    IF i > Len(SITES) THEN 0
    ELSE (IF unit[t][SITES[i]].how = "stored" THEN unit[t][SITES[i]].found ELSE 0)
         + SucceededTotal(t, i + 1)

\* C1: the persisted status of a task only moves pending -> running -> completed or
\* pending -> running -> failed; no write changes a completed or failed status.
C1_StatusMoves ==
    [][\A t \in TaskIds :
        (tasks[t] # None /\ tasks'[t] # None /\ StatusOf(t)' # StatusOf(t))
            => <<StatusOf(t), StatusOf(t)'>> \in
                 {<<"pending", "running">>, <<"running", "completed">>,
                  <<"running", "failed">>}]_vars

\* C1 witness: a task went pending -> running -> failed and its run is over.
C1_Witness ==
    \E t \in TaskIds : StatusOf(t) = "failed" /\ orch[t] = "done"

\* C2 (as claimed): whatever subset of the units fails (adapter exception, timeout,
\* normalizer or chunk write raising), a unit that went through returns the length
\* of its own DataFrame, the task is failed only when one of its own status writes
\* raised, a run that ended without such a write failure is completed, and a
\* completed task has the total of the units that went through.
C2_SourceIsolation ==
    \A t \in TaskIds :
        /\ \A s \in SiteSet :
              (unit[t][s].pc = "done" /\ unit[t][s].how = "stored")
                  => unit[t][s].res = Returned(unit[t][s].found)
        /\ StatusOf(t) = "failed" => fault[t]
        /\ (orch[t] = "done" /\ ~fault[t]) => StatusOf(t) = "completed"
        /\ StatusOf(t) = "completed"
              => tasks[t][1].total_found = Some(SucceededTotal(t, 1))

\* C3 (as claimed): at most Cap adapter calls of one task are in flight, also after
\* the wait for some call was abandoned on timeout.
C3_InFlightWithinCap ==
    \A t \in TaskIds : Cardinality(InFlight(t)) <= Cap

\* C4: a unit whose adapter call never returns ends by timeout with zero results,
\* every unit of the task ends, and the task is completed, unless a status write of
\* the task itself raised.
C4_TimeoutIsolation ==
    \A s \in SiteSet :
        (thread[FirstTask][s] = "hung")
            ~> /\ AllUnitsDone(FirstTask)
               /\ unit[FirstTask][s].how = "timeout"
               /\ unit[FirstTask][s].res = Returned(0)
               /\ StatusOf(FirstTask) = "completed" \/ fault[FirstTask]

\* C4 witness: a completed task, one call hung and timed out, a sibling stored.
C4_Witness ==
    \E a, b \in SiteSet :
        /\ StatusOf(FirstTask) = "completed"
        /\ thread[FirstTask][a] = "hung" /\ unit[FirstTask][a].how = "timeout"
        /\ unit[FirstTask][b].how = "stored" /\ unit[FirstTask][b].found > 0

\* The rows of the table with the source identity and URL of row w.
RowsFor(w) == {r \in jobs : r.source_id = w.source_id /\ r.url = w.url}

\* C5: the jobs table holds at most one row per (source identity, URL), and exactly
\* one for every (source identity, URL) that a committed chunk contained.
C5_OneRowPerSourceUrl ==
    /\ \A r, q \in jobs : (r.source_id = q.source_id /\ r.url = q.url) => r = q
    /\ \A w \in written : Cardinality(RowsFor(w)) = 1

\* C6: first write wins. A Job row that exists stays in the table with every field
\* as first written, and no later write puts another row of its (source identity,
\* URL) in its place.
C6_FirstWriteWins ==
    [][\A r \in jobs :
          /\ r \in jobs'
          /\ \A q \in jobs' \ jobs : ~(q.url # None /\ q.source_id = r.source_id /\ q.url = r.url)
      ]_vars

\* C6 witness: a committed chunk held a record for a (source identity, URL) that
\* another task had stored before; the stored row is the other task's.
C6_Witness ==
    \E w \in written :
        /\ w.url # None
        /\ w \notin jobs
        /\ \E r \in jobs : r.source_id = w.source_id /\ r.url = w.url /\ r.id[1] # w.id[1]

\* ---- notifier

\* Thread i is inside its delivery sequence: past line 44, not yet returned.
Sending(i) == sender[i].pc \in {"L75", "L148", "L91", "L92", "L104", "L105", "L157", "L158"}

\* Thread i has issued, or is issuing, a delivery sequence: it went past line 44,
\* however it ended.
Issued(i) == Sending(i) \/ sender[i].out \in {"sent", "permanent", "exhausted", "escaped"}

\* C7 (as claimed): when a key is triggered again while its first send has not
\* resolved, exactly one delivery sequence is issued for the key under every
\* interleaving of the threads, and every other send made no HTTP request.
C7_OneDeliverySequence ==
    \A k \in WebhookKeys :
        LET sends == {i \in SenderIds : sender[i].key = k}
            sequences == {i \in sends : Issued(i)}
        IN  /\ Cardinality(sequences) <= 1
            /\ \A i \in sends \ sequences : sender[i].posts = 0
            /\ (Configured /\ sends # {} /\ \A i \in sends : sender[i].pc = "end")
                  => Cardinality(sequences) = 1

\* C7 (amended): a send that takes the test of lines 40-43 while the key is in the
\* in-flight set or the sent set returns without an HTTP request; at any time at
\* most one thread is inside a delivery sequence for a key, its key in the
\* in-flight set; and a dropped send made no request and was dropped for another
\* thread's sequence.
C7_OneSequenceAtATime ==
    /\ [](\A i \in SenderIds :
            /\ Sending(i) =>
                  /\ sender[i].key \in _in_flight_webhooks
                  /\ \A j \in SenderIds \ {i} :
                        ~(Sending(j) /\ sender[j].key = sender[i].key)
            /\ sender[i].out = "dropped" =>
                  /\ sender[i].posts = 0
                  /\ \E j \in SenderIds \ {i} :
                        Issued(j) /\ sender[j].key = sender[i].key)
    /\ [][\A i \in SenderIds :
            (/\ sender[i].pc = "L40"
             /\ sender'[i] # sender[i]
             /\ sender[i].key \in _in_flight_webhooks \cup _sent_webhooks)
                => (sender'[i].out = "dropped" /\ sender'[i].posts = 0)]_vars

\* C7 witness: a send was dropped while the other thread's sequence for the same key
\* is still unresolved, a request out.
C7_Witness ==
    \E i, j \in SenderIds :
        /\ i # j /\ sender[i].key = sender[j].key
        /\ Sending(i) /\ sender[i].posts >= 1
        /\ sender[j].out = "dropped"
        /\ sender[i].key \notin _sent_webhooks

\* A delivery of key k has received a 2xx response.
Delivered(k) ==
    \E i \in SenderIds :
        /\ sender[i].key = k
        /\ sender[i].pc \in {"L91", "L92"} \/ sender[i].out = "sent"

\* C8: once a delivery of a key has received a 2xx response, no thread makes an HTTP
\* request for that key again.
C8_NoRequestAfterSuccess ==
    [][\A k \in WebhookKeys : Delivered(k) =>
          \A i \in SenderIds : sender'[i].key = k => sender'[i].posts = sender[i].posts
      ]_vars

\* C8 witness: a key was delivered and a later send of it has been dropped.
C8_Witness ==
    \E i, j \in SenderIds :
        /\ i # j /\ sender[i].key = sender[j].key
        /\ sender[i].out = "sent"
        /\ sender[j].out = "dropped"

\* C9: the 2xx response that follows N-1 retriable failures is the answer to the Nth
\* HTTP request, N within the configured maximum; once the send has returned the key
\* is in the sent set and not in the in-flight set.
C9_RetryThenSent ==
    \A i \in SenderIds :
        /\ sender[i].pc \in {"L91", "L92"} =>
              /\ sender[i].posts = sender[i].attempt
              /\ 1 <= sender[i].attempt /\ sender[i].attempt <= max_retries
        /\ sender[i].out = "sent" =>
              /\ 1 <= sender[i].posts /\ sender[i].posts <= max_retries
              /\ sender[i].key \in _sent_webhooks
              /\ sender[i].key \notin _in_flight_webhooks

\* C9 witness: a send that succeeded on the last allowed attempt.
C9_Witness ==
    \E i \in SenderIds :
        /\ sender[i].out = "sent"
        /\ sender[i].posts = MaxAttempts
        /\ sender[i].key \in _sent_webhooks
        /\ sender[i].key \notin _in_flight_webhooks

\* A response that is neither 2xx nor a server error.
PermanentStatus(st) ==
    /\ st # None
    /\ st[1].exc = ""
    /\ ~(200 <= st[1].status_code /\ st[1].status_code < 300)
    /\ st[1].status_code < 500

\* C10: a response that is neither 2xx nor >= 500 ends the send: the thread goes to
\* the permanent-failure return and makes no further request; when it returns the
\* key is out of the in-flight set and the sent set is as it was.
C10_PermanentEndsSend ==
    [][\A i \in SenderIds :
          /\ PermanentStatus(sender'[i].status) => sender'[i].pc \in {"L104", "L105"}
          /\ PermanentStatus(sender[i].status) =>
                /\ sender'[i].posts = sender[i].posts
                /\ sender'[i].pc \in {"L104", "L105", "end"}
                /\ sender'[i].pc = "end" =>
                      /\ sender'[i].out = "permanent"
                      /\ sender[i].key \notin _in_flight_webhooks'
                      /\ _sent_webhooks' = _sent_webhooks
      ]_vars

\* C10 witness: a send that ended as a permanent failure after its first request.
C10_Witness ==
    \E i \in SenderIds :
        /\ sender[i].out = "permanent"
        /\ sender[i].posts = 1
        /\ sender[i].key \notin _in_flight_webhooks
        /\ sender[i].key \notin _sent_webhooks

\* C11: a send never makes more requests than the configured maximum; it leaves the
\* loop for the exhausted return only after exactly that many, all of them failed
\* retriably, and when it returns the key is out of the in-flight set and the sent
\* set is as it was.
C11_ExhaustedAfterMax ==
    [][\A i \in SenderIds :
          /\ sender'[i].posts <= max_retries
          /\ sender'[i].pc \in {"L157", "L158"} =>
                /\ sender'[i].posts = max_retries
                /\ sender'[i].attempt = max_retries
                /\ Classify(sender'[i].status[1]) = "retriable"
          /\ sender[i].pc \in {"L157", "L158"} =>
                /\ sender'[i].posts = sender[i].posts
                /\ sender'[i].pc \in {"L157", "L158", "end"}
                /\ sender'[i].pc = "end" =>
                      /\ sender'[i].out = "exhausted"
                      /\ sender[i].key \notin _in_flight_webhooks'
                      /\ _sent_webhooks' = _sent_webhooks
      ]_vars

\* C11 witness: a send gave up after the largest configured number of requests.
C11_Witness ==
    \E i \in SenderIds :
        /\ sender[i].out = "exhausted"
        /\ sender[i].posts = MaxAttempts
        /\ sender[i].key \notin _in_flight_webhooks
        /\ sender[i].key \notin _sent_webhooks

\* C12: where the endpoint or the token is not set, no send makes an HTTP request,
\* none goes past the configuration test, and both sets stay as they were.
C12_UnconfiguredIsInert ==
    (settings.GO_BACKEND_URL = "" \/ settings.INTERNAL_TOKEN = "") =>
        /\ _sent_webhooks = {}
        /\ _in_flight_webhooks = {}
        /\ \A i \in SenderIds :
              /\ sender[i].posts = 0
              /\ sender[i].pc \in {"none", "L23", "end"}
              /\ sender[i].pc = "end" => sender[i].out = "unconfigured"

\* C12 witness: the endpoint is set, the token is not, and a send has returned.
C12_Witness ==
    /\ settings.GO_BACKEND_URL # "" /\ settings.INTERNAL_TOKEN = ""
    /\ \E i \in SenderIds : sender[i].out = "unconfigured"
    /\ _sent_webhooks = {} /\ _in_flight_webhooks = {}

\* ---- orchestrator, continued

\* C13 (as claimed): when a task is completed, the webhook of every configured source
\* has been triggered exactly once, whatever the outcome of the source.
C13_WebhookOncePerSource ==
    \A t \in TaskIds :
        StatusOf(t) = "completed" => \A s \in SiteSet : triggered[t][s] = 1

\* C14 (as claimed): a task whose running write raised is failed, with the message of
\* the error persisted; it is not left pending.
C14_RunningFailureFails ==
    \A t \in TaskIds :
        (orch[t] = "raised" /\ \A s \in SiteSet : unit[t][s] = IdleUnit)
            => /\ StatusOf(t) = "failed"
               /\ tasks[t][1].error_message # None

\* The found-count of a source: the number of records its adapter call returned when
\* the unit went through, zero when it timed out, failed or was unresolved.
FoundCount(t, s) == IF unit[t][s].how = "stored" THEN unit[t][s].found ELSE 0

RECURSIVE SumOfCounts(_, _)
SumOfCounts(t, S) ==
    IF S = {} THEN 0
    ELSE LET s == CHOOSE x \in S : TRUE
         IN FoundCount(t, s) + SumOfCounts(t, S \ {s})

\* C15: a completed task has every unit over and total_found equal to the sum of the
\* found-counts of all configured sources; when no source found anything that is 0.
C15_TotalIsSumOfCounts ==
    \A t \in TaskIds :
        StatusOf(t) = "completed" =>
            /\ AllUnitsDone(t)
            /\ tasks[t][1].total_found = Some(SumOfCounts(t, SiteSet))
            /\ (\A s \in SiteSet : unit[t][s].how # "stored" \/ unit[t][s].found = 0)
                  => tasks[t][1].total_found = Some(0)

\* C15 witness: a completed task, two sources with results and one unresolved; the
\* total is the two counts together.
C15_Witness ==
    \E t \in TaskIds : \E a, b, c \in SiteSet :
        /\ StatusOf(t) = "completed"
        /\ a # b
        /\ unit[t][a].how = "stored" /\ unit[t][a].found > 0
        /\ unit[t][b].how = "stored" /\ unit[t][b].found > 0
        /\ unit[t][c].how = "unseeded"
        /\ tasks[t][1].total_found = Some(unit[t][a].found + unit[t][b].found)

\* C16 (as claimed): a task handed to the orchestrator reaches completed or failed.
C16_ReachesTerminal ==
    (orch[FirstTask] = "L210") ~> (StatusOf(FirstTask) \in {"completed", "failed"})

\* The adapter calls in flight in the whole process.
AllInFlight == {<<t, s>> \in TaskIds \X SiteSet : s \in InFlight(t)}

\* C19 (as claimed): over all the tasks that run at the same time, at most Cap adapter
\* calls are in flight.
C19_ProcessWideCap == Cardinality(AllInFlight) <= Cap

\* C17 (as claimed): a delete without force never removes a row whose status is
\* running when it goes, and the handler answers 409 only to an unforced delete of a
\* running task.
C17_NoUnforcedDeleteOfRunning ==
    /\ (deleter.out = "deleted" /\ ~deleter.force) => deleter.was # "running"
    /\ deleter.out = "409" => (~deleter.force /\ deleter.seen = "running")

\* C20 (as claimed): every status write stamps updated_at, and the stamp of a
\* transition is later than the stamp of the transition before it.
C20_UpdatedAtIncreases ==
    [][\A t \in TaskIds :
          (tasks[t] # None /\ tasks'[t] # None /\ StatusOf(t)' # StatusOf(t))
              => tasks'[t][1].updated_at > tasks[t][1].updated_at
      ]_vars

\* C18: delivery never reaches the task. No step of a sender thread changes anything
\* the orchestrator reads or writes; the completed write waits for the units only,
\* not for the deliveries; and the status and total_found of a finished run are what
\* the settings and the units' outcomes alone determine (failed without a total
\* where the run ended at the attribute read of line 226 or 228, else completed with
\* the sum of the units' counts).
C18_DeliveryNeverReachesTask ==
    /\ [][(\E i \in SenderIds : sender[i].pc # "none" /\ sender'[i] # sender[i])
              => ovars' = ovars]_vars
    /\ [](\A t \in TaskIds :
            /\ (orch[t] = "L242" /\ AllUnitsDone(t)) => ENABLED MarkCompleted(t)
            /\ (orch[t] = "done" /\ ~fault[t]) =>
                  IF HasFanOutSettings
                  THEN /\ StatusOf(t) = "completed"
                       /\ tasks[t][1].total_found = Some(SumOfCounts(t, SiteSet))
                  ELSE /\ StatusOf(t) = "failed"
                       /\ tasks[t][1].total_found = None)

\* C18 witness: the task is completed while one delivery has failed for good and
\* another is still unresolved.
C18_Witness ==
    /\ StatusOf(FirstTask) = "completed"
    /\ \E i, j \in SenderIds :
          /\ Sending(i)
          /\ sender[j].out \in {"permanent", "exhausted"}

\* ---- orchestrator, order of effects

\* Task t has begun to scrape: a unit has left its start, an adapter call was made,
\* a webhook was triggered or a row of the task was written.
Scraping(t) ==
    \/ \E s \in SiteSet : unit[t][s].pc \notin {"idle", "L234"}
    \/ \E s \in SiteSet : thread[t][s] # "none"
    \/ \E s \in SiteSet : triggered[t][s] > 0
    \/ \E w \in written : w.id[1] = t

\* C21: while the persisted status of a task is pending, no source lookup, adapter
\* call, job write or webhook trigger of that task has happened; and the write that
\* makes the status running leaves error_message empty.
C21_RunningBeforeScraping ==
    /\ [](\A t \in TaskIds : StatusOf(t) = "pending" => ~Scraping(t))
    /\ [][\A t \in TaskIds :
            (StatusOf(t) # "running" /\ StatusOf(t)' = "running")
                => tasks'[t][1].error_message = None]_vars

\* C21 witness: the row is running, without error message, and a unit is at its
\* source lookup.
C21_Witness ==
    \E t \in TaskIds : \E s \in SiteSet :
        /\ StatusOf(t) = "running"
        /\ tasks[t][1].error_message = None
        /\ unit[t][s].pc = "L113"

\* The rows of the committed chunks of unit (t, s); id[3] is the place of the record
\* in the normalizer's output.
WrittenBy(t, s) == {w \in written : w.id[1] = t /\ w.id[2] = s}

\* The rows of the chunks unit (t, s) has still to write.
Pending(t, s) ==
    UNION {{unit[t][s].chunks[k][i] : i \in 1..Len(unit[t][s].chunks[k])} :
             k \in 1..Len(unit[t][s].chunks)}

\* C22: a unit commits its chunks one at a time, in the normalizer's order: a step
\* commits the rows of the next chunk only, all of them after every row committed
\* before and before every row still to write. When a chunk write raises, the rows
\* committed before stay, the unit writes nothing more, it hands an exception to
\* gather, and a completed task's total is the sum over the other sources.
C22_ChunksInOrder ==
    /\ [][\A t \in TaskIds : \A s \in SiteSet :
            /\ jobs \subseteq jobs'
            /\ WrittenBy(t, s) \subseteq WrittenBy(t, s)'
            /\ WrittenBy(t, s)' # WrittenBy(t, s) =>
                  /\ unit[t][s].pc = "L170"
                  /\ WrittenBy(t, s)' \ WrittenBy(t, s) =
                        {Head(unit[t][s].chunks)[i] : i \in 1..Len(Head(unit[t][s].chunks))}
                  /\ \A w \in WrittenBy(t, s)' \ WrittenBy(t, s) :
                        /\ \A o \in WrittenBy(t, s) : o.id[3] < w.id[3]
                        /\ \A r \in Pending(t, s)' : w.id[3] < r.id[3]
            /\ unit'[t][s].how = "insert_raised" =>
                  /\ WrittenBy(t, s)' = WrittenBy(t, s)
                  /\ unit'[t][s].res = Raised
          ]_vars
    /\ [](\A t \in TaskIds : \A s \in SiteSet :
            (unit[t][s].how = "insert_raised" /\ StatusOf(t) = "completed")
                => tasks[t][1].total_found = Some(SumOfCounts(t, SiteSet \ {s})))

\* C22 witness: the second chunk of a source raised after its first chunk was
\* committed; the row of the first chunk is in the table and the task is completed.
C22_Witness ==
    \E t \in TaskIds : \E s \in SiteSet :
        /\ unit[t][s].how = "insert_raised"
        /\ unit[t][s].found = 2
        /\ \E w \in WrittenBy(t, s) : w \in jobs /\ w.id[3] = 1
        /\ StatusOf(t) = "completed"

\* ---- notifier, continued

\* The places of a sender thread inside a `with _sent_webhooks_lock` block.
InsideLock == {"L40", "L92", "L105", "L158"}

\* C23: a thread that is at its HTTP request or asleep between attempts does not
\* hold the dedup lock; the holder is inside the membership check or an update of
\* the sets, where its next step needs no one and frees the lock.
C23_LockOnlyAroundSets ==
    \A i \in SenderIds :
        /\ sender[i].pc \in {"L75", "L148"} => _sent_webhooks_lock # i
        /\ _sent_webhooks_lock = i =>
              /\ sender[i].pc \in InsideLock
              /\ ENABLED (Dedupe(i) \/ MarkSent(i) \/ DiscardPermanent(i)
                             \/ DiscardExhausted(i))

\* C23 witness: one thread sleeps between attempts for its key while another holds
\* the lock to record the delivery of a different key.
C23_Witness ==
    \E i, j \in SenderIds :
        /\ sender[i].pc = "L148"
        /\ sender[j].key # sender[i].key
        /\ sender[j].pc = "L92"
        /\ _sent_webhooks_lock = j

\* ---- task rows

\* C24: in every task row, total_found is set exactly when the status is completed
\* and error_message is set exactly when the status is failed.
C24_FieldsFollowStatus ==
    \A t \in TaskIds :
        tasks[t] # None =>
            /\ tasks[t][1].total_found # None <=> StatusOf(t) = "completed"
            /\ tasks[t][1].error_message # None <=> StatusOf(t) = "failed"

\* C24 witness: a task failed at its completed write, after a source had stored
\* records: the row has the message and no total.
C24_Witness ==
    \E t \in TaskIds :
        /\ StatusOf(t) = "failed"
        /\ tasks[t][1].error_message # None
        /\ tasks[t][1].total_found = None
        /\ \E s \in SiteSet : unit[t][s].how = "stored" /\ unit[t][s].found > 0

\* C25 (as claimed): a thread sleeps only between attempts, never after the first
\* nor after the last; the delay after the second attempt is one second and doubles
\* with every further attempt; and no delay is above the cap, whatever attempt count
\* is configured.
C25_BackoffCapped ==
    \A i \in SenderIds :
        /\ sender[i].pc = "L148" =>
              /\ 2 <= sender[i].attempt /\ sender[i].attempt < max_retries
              /\ Backoff(sender[i].attempt) =
                    IF sender[i].attempt = 2 THEN 1 ELSE 2 * Backoff(sender[i].attempt - 1)
              /\ Backoff(sender[i].attempt) <= BackoffCap
        /\ sender[i].pc \in {"L157", "L158"} => sender[i].attempt = max_retries

\* C26: the webhook of a source that went through is triggered when its last chunk
\* is committed and not before; from the trigger on no row of that source is
\* written; and no webhook of a task is triggered once its status is completed.
C26_TriggerAfterCommit ==
    [][\A t \in TaskIds : \A s \in SiteSet :
          /\ unit'[t][s].pc = "L170" => triggered'[t][s] = 0
          /\ (triggered'[t][s] # triggered[t][s] /\ unit'[t][s].how = "stored") =>
                /\ Pending(t, s)' = {}
                /\ Pending(t, s) \subseteq WrittenBy(t, s)'
          /\ triggered[t][s] > 0 => WrittenBy(t, s)' = WrittenBy(t, s)
          /\ triggered'[t][s] # triggered[t][s] =>
                (StatusOf(t) = "running" /\ StatusOf(t)' = "running")
          /\ StatusOf(t) = "completed" => triggered'[t] = triggered[t]
      ]_vars

\* C26 witness: a source wrote its two records in two chunks and then triggered its
\* webhook; the task is completed.
C26_Witness ==
    \E t \in TaskIds : \E s \in SiteSet :
        /\ chunk_size = 1
        /\ unit[t][s].how = "stored"
        /\ Cardinality(WrittenBy(t, s)) = 2
        /\ triggered[t][s] = 1
        /\ StatusOf(t) = "completed"

\* C27 (as claimed): no key is in the sent set and in the in-flight set at once, and
\* every key of the in-flight set has a sender thread inside a delivery for it:
\* however a send ends, its key has left the in-flight set.
C27_InFlightOnlyWhileSending ==
    /\ _sent_webhooks \cap _in_flight_webhooks = {}
    /\ \A k \in _in_flight_webhooks :
          \E i \in SenderIds : Sending(i) /\ sender[i].key = k

\* Thread j sends a key of which another send has ended in permanent failure or with
\* its attempts used up, and of which no other send is under way, was delivered or
\* ended in another way after its dedup test.
FailedBefore(j) ==
    /\ \E i \in SenderIds \ {j} :
          sender[i].key = sender[j].key /\ sender[i].out \in {"permanent", "exhausted"}
    /\ \A i \in SenderIds \ {j} :
          sender[i].key = sender[j].key =>
              \/ sender[i].pc \in {"L23", "L39"}
              \/ sender[i].out \in {"permanent", "exhausted", "dropped", "unconfigured"}

\* C28: a send of a key whose earlier sends failed for good or gave up finds the key
\* in neither set, and its dedup test does not drop it: it marks the key in flight
\* and goes to its first request.
C28_RetriggerAfterFailure ==
    /\ [](\A j \in SenderIds :
            (sender[j].pc \in {"L23", "L39", "L40"} /\ FailedBefore(j)) =>
                /\ sender[j].key \notin _sent_webhooks
                /\ sender[j].key \notin _in_flight_webhooks)
    /\ [][\A j \in SenderIds :
            (sender[j].pc = "L40" /\ sender'[j].pc # "L40" /\ FailedBefore(j)) =>
                /\ sender'[j].pc = "L75"
                /\ sender'[j].attempt = 1
                /\ sender[j].key \in _in_flight_webhooks'
          ]_vars

\* C28 witness: the first send of a key ended in permanent failure; the send the
\* next trigger started made its own request and was delivered.
C28_Witness ==
    \E i, j \in SenderIds :
        /\ i # j /\ sender[i].key = sender[j].key
        /\ sender[i].out = "permanent"
        /\ sender[j].out = "sent" /\ sender[j].posts >= 1

\* ---- counts

\* The Job rows in the table that unit (t, s) inserted.
InsertedBy(t, s) == {r \in jobs : r.id[1] = t /\ r.id[2] = s}

\* C29: the count a unit that goes through carries from the adapter's return on is
\* the length of the DataFrame returned, whatever the normalizer kept of it; the unit
\* returns that count, which is at least the number of rows it inserted, and a
\* completed task's total is the sum of these counts.
C29_FoundIsRawCount ==
    /\ [][\A t \in TaskIds : \A s \in SiteSet :
            (unit[t][s].pc = "L126"
                /\ (unit'[t][s].pc = "L170" \/ unit'[t][s].how = "stored")) =>
              \E df \in DataFrames :
                  /\ Len(df) > 0
                  /\ unit'[t][s].found = Len(df)
                  /\ NormalizeFrom(df, 1, t, s).kind = "rows"
                  /\ IF NormalizeFrom(df, 1, t, s).rows = <<>>
                     THEN unit'[t][s].res = Returned(Len(df))
                     ELSE unit'[t][s].chunks =
                            _chunked(NormalizeFrom(df, 1, t, s).rows, chunk_size)
          ]_vars
    /\ [](\A t \in TaskIds :
            /\ \A s \in SiteSet :
                  unit[t][s].how = "stored" =>
                      /\ unit[t][s].res = Returned(unit[t][s].found)
                      /\ Cardinality(InsertedBy(t, s)) <= unit[t][s].found
            /\ StatusOf(t) = "completed" =>
                  tasks[t][1].total_found = Some(SumOfCounts(t, SiteSet)))

\* C29 witness: one source lost a record without URL to the normalizer, another had
\* the same URL twice; each counts two records and inserted one row, and the
\* completed task reports four for the two rows it added.
C29_Witness ==
    \E t \in TaskIds : \E a, b \in SiteSet :
        /\ unit[t][a].how = "stored" /\ unit[t][a].found = 2
        /\ Cardinality(WrittenBy(t, a)) = 1
        /\ unit[t][b].how = "stored" /\ unit[t][b].found = 2
        /\ Cardinality(WrittenBy(t, b)) = 2 /\ Cardinality(InsertedBy(t, b)) = 1
        /\ StatusOf(t) = "completed"
        /\ tasks[t][1].total_found = Some(4)
        /\ Cardinality(jobs) = 2

\* ---- administration, continued

\* C30: once the row of a task that was handed to the orchestrator is gone, no write
\* of the orchestrator brings it back; and after a forced delete of a running task
\* the run goes on: as long as it is not over, a step of its coroutines and threads
\* can be taken.
C30_DeletedStaysAbsent ==
    /\ [][\A t \in TaskIds :
            (tasks[t] = None /\ orch[t] # "none") => tasks'[t] = None]_vars
    /\ []((deleter.out = "deleted" /\ deleter.was = "running"
             /\ orch[FirstTask] \notin {"done", "raised"})
                => ENABLED TaskStep(FirstTask))

\* C30 witness: a forced delete removed the running row; the run went on to store
\* rows, trigger webhooks and make its completed write, and the row is absent.
C30_Witness ==
    /\ deleter.out = "deleted" /\ deleter.force /\ deleter.was = "running"
    /\ orch[FirstTask] = "done" /\ ~fault[FirstTask]
    /\ tasks[FirstTask] = None
    /\ InsertedBy(FirstTask, SITES[1]) # {}
    /\ \A s \in SiteSet : triggered[FirstTask][s] = 1

====
